---- MODULE Spec2Model ----
(***************************************************************************)
(* A model of Nemesis.pyx, the Cython implementation of the NEMESIS cipher: *)
(* the odd/inverse tables, necessary_length, generate_keystreams, the       *)
(* streaming loop of nemesis_encrypt with its RK+ step and checksum, the    *)
(* nemesis_decrypt stub and the command loop of main.                       *)
(*                                                                         *)
(* Conventions.  Python and C sequences are 0-indexed; TLA+ sequences are   *)
(* 1-indexed, so At(s, n) reads element n of a 0-indexed sequence.  A byte  *)
(* held in a buffer or in the file is kept as its bit pattern 0..255; how   *)
(* the C type char reads that pattern depends on the build (charSigned).    *)
(***************************************************************************)
EXTENDS Integers, Sequences

VARIABLES
    charSigned,   \* build: TRUE when the C type char is signed
    pc,           \* position inside nemesis_encrypt / the function under test
    size,         \* nemesis_encrypt: size (also necessary_length's argument)
    minlen,       \* nemesis_encrypt: minlen
    key1, key2,   \* the two passwords, sequences of code points
    keystream1, keystream2,   \* lists of rows of bytes
    L1, L2, stop1, stop2,     \* nemesis_encrypt locals, lines 241-243
    count, checksum,          \* nemesis_encrypt locals, line 244
    data,         \* the chunk buffer (bytearray / data_view), bit patterns
    byte1, byte2, \* the mixing bytes of the last transformed position
    index,        \* index of the last transformed byte inside data
    store,        \* the file's content, bit patterns
    filepos,      \* the file object's position
    mac,          \* the four numbers printed as the MAC
    orig,         \* the file's content when nemesis_encrypt was entered
    x,            \* main: the split command
    filename, mode,           \* main locals
    pending,      \* main: the exception pending while the finally block runs
    lastCall,     \* main: the function the last finally block dispatched to
    mainpc,       \* main: position in the command loop
    ncmds         \* main: commands read so far

encvars  == <<size, minlen, key1, key2, keystream1, keystream2, L1, L2, stop1,
              stop2, count, checksum, data, byte1, byte2, index, store,
              filepos, mac, orig>>
mainvars == <<x, filename, mode, pending, lastCall, mainpc, ncmds>>
vars     == <<charSigned, pc, encvars, mainvars>>

-----------------------------------------------------------------------------
(* Bounds of the model *)

\* The chunk size of the streaming loop, 1048576 in the source (lines 248,
\* 266, 279, 280, 284), scaled down so that files of a few bytes span full
\* and partial chunks.
ChunkSize == 2
\* Largest file size of the streaming specification.
MaxSize == 4
\* Longest password (in characters) of the streaming specification.
MaxPassLen == 3
\* Longest key (in characters) handed to generate_keystreams on its own.
MaxKeyLen == 4
\* Largest size handed to necessary_length on its own.
MaxAdvisorSize == 100
\* Commands read by main.
MaxCmds == 3

Byte == 0..255
\* Byte values a file of the streaming specification is made of.
FileBytes == {0, 200}
\* Code points the passwords are made of: 'a' and 'e' with acute accent.
KeyChars == {97, 233}

-----------------------------------------------------------------------------
(* Helpers: 0-indexed access, Python indexing, C arithmetic *)

At(s, n) == s[n + 1]

\* Python's s[n]: a negative n counts from the end.
PyAt(s, n) == IF n < 0 THEN s[Len(s) + n + 1] ELSE s[n + 1]

Min(a, b) == IF a < b THEN a ELSE b

CeilHalf(n) == (n + 1) \div 2

\* C remainder and quotient (cdivision=True): truncation toward zero.
CRem(a, m) == IF a >= 0 THEN a % m ELSE -((-a) % m)
CDiv(a, m) == IF a >= 0 THEN a \div m ELSE -((-a) \div m)

\* Reading a buffer byte through char[:]: the value of the C type char.
CharValue(signed, b) == IF signed /\ b >= 128 THEN b - 256 ELSE b

\* Storing a C int into a char as if its magnitude were kept.
StoreCharMagnitude(v) == IF v < 0 THEN -v ELSE v

\* Storing a C int into a char: the low eight bits.
StoreChar(v) == v % 256

RECURSIVE SumSeq(_)
SumSeq(s) == IF s = <<>> THEN 0 ELSE Head(s) + SumSeq(Tail(s))

-----------------------------------------------------------------------------
(* The tables, lines 80-93 *)

\* range(start, stop, step) for a positive step, as a sequence.
PyRange(start, stop, step) ==
    [n \in 1..((stop - start + step - 1) \div step) |-> start + (n - 1) * step]

\* range(0, 256, 2): the table started one too low.
_ODD_from0 == PyRange(0, 256, 2)

\* Line 83: _ODD[:] = range(1, 256, 2).
_ODD == PyRange(1, 256, 2)

\* Lines 84-93.
_INVERSE ==
    <<1, 171, 205, 183, 57, 163, 197, 239, 241, 27, 61, 167, 41, 19,
      53, 223, 225, 139, 173, 151, 25, 131, 165, 207, 209, 251, 29,
      135, 9, 243, 21, 191, 193, 107, 141, 119, 249, 99, 133, 175,
      177, 219, 253, 103, 233, 211, 245, 159, 161, 75, 109, 87, 217,
      67, 101, 143, 145, 187, 221, 71, 201, 179, 213, 127, 129, 43,
      77, 55, 185, 35, 69, 111, 113, 155, 189, 39, 169, 147, 181, 95,
      97, 11, 45, 23, 153, 3, 37, 79, 81, 123, 157, 7, 137, 115, 149,
      63, 65, 235, 13, 247, 121, 227, 5, 47, 49, 91, 125, 231, 105,
      83, 117, 31, 33, 203, 237, 215, 89, 195, 229, 15, 17, 59, 93,
      199, 73, 51, 85, 255>>

-----------------------------------------------------------------------------
(* necessary_length, lines 114-122 *)

\* approx_growth_rate is a double that starts at 2.65 and is multiplied by
\* 2.65; it is kept here as the exact fraction num/den = (53/20)^n.  For
\* every n with (53/20)^n below 2^40 the double and the fraction have the
\* same integer part and neither is an integer, so comparing either with an
\* int gives the same answer.
RECURSIVE NLWhile(_, _, _, _)
NLWhile(sz, k, num, den) ==
    IF num < sz * den THEN NLWhile(sz, k + 1, num * 53, den * 20) ELSE k

\* necessary_length with k started at 1.
necessary_length_from1(sz) == NLWhile(sz, 1, 53, 20)

necessary_length(sz) == NLWhile(sz, 2, 53, 20)

-----------------------------------------------------------------------------
(* as_bytes, lines 107-108: bytearray(x, encoding='UTF-8') *)

Utf8(cp) ==
    IF cp < 128 THEN <<cp>>
    ELSE IF cp < 2048 THEN <<192 + (cp \div 64), 128 + (cp % 64)>>
    ELSE IF cp < 65536
         THEN <<224 + (cp \div 4096), 128 + ((cp \div 64) % 64), 128 + (cp % 64)>>
    ELSE <<240 + (cp \div 262144), 128 + ((cp \div 4096) % 64),
           128 + ((cp \div 64) % 64), 128 + (cp % 64)>>

RECURSIVE as_bytes(_)
as_bytes(s) == IF s = <<>> THEN <<>> ELSE Utf8(Head(s)) \o as_bytes(Tail(s))

-----------------------------------------------------------------------------
(* generate_keystreams, lines 128-186 *)

\* aux is declared cdef int (line 137) while the keystream entries are Python
\* objects: every assignment to aux converts a Python integer to a C int,
\* which raises OverflowError outside the int range.  CIntError stands for
\* that raise; aux is never negative otherwise.
CIntMax == 2147483647
CIntError == -1
ToCInt(v) == IF v <= CIntMax /\ v >= -CIntMax - 1 THEN v ELSE CIntError

\* The fourth factor always taken at index 0.
WrapIndexNoWrap(j) == 0

\* The index of the fourth factor, lines 153 and 172: min(0, j-1), which is
\* -1 (the last entry of the row above) for j = 0 and 0 otherwise.

WrapIndex(j) == Min(0, j - 1)

\* for k in range(Lo): aux += other[0][k] * other[0][(k + j) % Lo]
\*                            * own[0][(aux + k) % L]        (lines 155-157)
RECURSIVE KLoop(_, _, _, _, _, _, _)
KLoop(aux, k, j, own0, other0, L, Lo) ==
    IF k >= Lo THEN aux
    ELSE KLoop(ToCInt(aux + At(other0, k) * At(other0, (k + j) % Lo)
                              * At(own0, (aux + k) % L)),
               k + 1, j, own0, other0, L, Lo)

\* One pass of the while loop, lines 152-159: the entry j of row i.
RowEntry(prev, i, j, own0, other0, L, Lo) ==
    LET a0 == ToCInt(PyAt(prev, j) * PyAt(prev, L - i))
        a1 == ToCInt(a0 + PyAt(prev, j + 1) * PyAt(prev, WrapIndex(j)))
    IN  KLoop(a1, 0, j, own0, other0, L, Lo) % 256

\* while (j < L - i), lines 150-160, then bytearray(...), line 163.
NewRow(prev, i, own0, other0, L, Lo) ==
    [n \in 1..(L - i) |-> RowEntry(prev, i, n - 1, own0, other0, L, Lo)]

\* for i in range(1, 1 + stop), lines 148-163.
RECURSIVE RowLoop(_, _, _, _, _, _)
RowLoop(ks, i, stop, other0, L, Lo) ==
    IF i > stop THEN ks
    ELSE RowLoop(Append(ks, NewRow(ks[Len(ks)], i, ks[1], other0, L, Lo)),
                 i + 1, stop, other0, L, Lo)

\* L1 and L2 are len(key1) and len(key2), the lengths in characters (lines
\* 133-134); the rows 0 are the UTF-8 bytes (line 141).
generate_keystreams(k1, k2) ==
    LET l1 == Len(k1)
        l2 == Len(k2)
        row1 == as_bytes(k1)
        row2 == as_bytes(k2)
    IN  <<RowLoop(<<row1>>, 1, CeilHalf(l1), row2, l1, l2),
          RowLoop(<<row2>>, 1, CeilHalf(l2), row1, l2, l1)>>

-----------------------------------------------------------------------------
(* The RK+ step of nemesis_encrypt, lines 265-271 *)

\* Line 265: RK = ((byte1 + byte2) % 256) // 2, in C arithmetic.
RKIndex(b1, b2) == CDiv(CRem(b1 + b2, 256), 2)

\* Lines 268-269 with the subtraction turned into an addition.
RKPlusAdd(c, b1, b2) ==
    CRem((At(_ODD, RKIndex(b1, b2)) * c + b1 + b2)
            * At(_ODD, 127 - RKIndex(b1, b2)), 256)

\* Lines 268-269: the new value of the C int RK, for the char value c read
\* from data_view[index].  Both table reads use the RK of line 265.
RKPlus(c, b1, b2) ==
    CRem((At(_ODD, RKIndex(b1, b2)) * c + b1 - b2)
            * At(_ODD, 127 - RKIndex(b1, b2)), 256)

\* Lines 268-271: the bit pattern left in data_view[index] for the bit
\* pattern b found there.
StoredByte(signed, b, b1, b2) == StoreChar(RKPlus(CharValue(signed, b), b1, b2))

\* Line 274: checksum += data_view[index], the char value of the stored byte.
ChecksumAddend(signed, b) == CharValue(signed, b)

-----------------------------------------------------------------------------
(* The mixing bytes, lines 253-261 *)

\* for i in range(stop): byte += keystream[i][count % (L - i)].  keystream
\* is a Python list indexed with boundscheck(False): reading past its end is
\* undefined ("ub").  Its rows are bytearrays, which check the index and
\* raise IndexError.
RECURSIVE MixLoop(_, _, _, _, _, _)
MixLoop(ks, L, stop, t, i, acc) ==
    IF i >= stop THEN [st |-> "ok", v |-> CRem(acc, 256)]
    ELSE IF i >= Len(ks) THEN [st |-> "ub", v |-> 0]
    ELSE IF CRem(t, L - i) >= Len(At(ks, i)) THEN [st |-> "IndexError", v |-> 0]
    ELSE MixLoop(ks, L, stop, t, i + 1, acc + At(At(ks, i), CRem(t, L - i)))

-----------------------------------------------------------------------------
(* The file object, lines 238, 248, 281-284 *)

\* datafile.read(n) at position pos.
FileRead(content, pos, n) == SubSeq(content, pos + 1, Min(pos + n, Len(content)))

\* datafile.seek(pos); datafile.write(buf).
FileWrite(content, pos, buf) ==
    [n \in 1..(IF pos + Len(buf) > Len(content) THEN pos + Len(buf) ELSE Len(content))
        |-> IF n > pos /\ n <= pos + Len(buf) THEN buf[n - pos] ELSE content[n]]

\* Line 279: the buffer is written back when count reaches a chunk boundary.
ChunkDue(cnt, sz) == cnt % ChunkSize = 0

-----------------------------------------------------------------------------
(* Input sets *)

RECURSIVE SeqsUpTo(_, _)
SeqsUpTo(S, n) ==
    IF n = 0 THEN {<<>>}
    ELSE LET shorter == SeqsUpTo(S, n - 1)
         IN  shorter \cup {Append(s, e) : s \in {t \in shorter : Len(t) = n - 1}, e \in S}

\* Passwords typed at the prompts of nemesis_encrypt: up to MaxPassLen
\* characters, at most one of them outside ASCII (which is enough for the
\* length in bytes to differ from the length in characters).
Passwords ==
    {k \in SeqsUpTo(KeyChars, MaxPassLen) :
        \A m, n \in 1..Len(k) : (k[m] >= 128 /\ k[n] >= 128) => m = n}
\* Passwords typed when nemesis_encrypt runs under main.
MainPasswords == {<<97, 97>>, <<97, 233>>, <<97, 97, 233>>}
\* Files of the streaming specification.
Stores == SeqsUpTo(FileBytes, MaxSize)
\* Contents of the file "f" of main.
MainStores == {<<>>, <<0, 200>>, <<200, 0, 200>>}

PasswordsFor(caller) == IF caller = "none" THEN Passwords ELSE MainPasswords

-----------------------------------------------------------------------------
(* nemesis_encrypt, lines 196-304, and nemesis_decrypt, lines 308-309 *)

\* Lines 207-213.
EncEntry ==
    /\ pc = "enc_entry"
    /\ size' = Len(store)
    /\ minlen' = necessary_length(Len(store))
    /\ orig' = store
    /\ pc' = "enc_keys"
    /\ UNCHANGED <<charSigned, key1, key2, keystream1, keystream2, L1, L2, stop1,
                   stop2, count, checksum, data, byte1, byte2, index, store,
                   filepos, mac, mainvars>>

\* Lines 214-221: each prompt repeats until the password is long enough.
EnterKeys ==
    /\ pc = "enc_keys"
    /\ \E k1, k2 \in PasswordsFor(mainpc) :
          /\ Len(k1) >= minlen
          /\ Len(k2) >= minlen
          /\ key1' = k1
          /\ key2' = k2
    /\ pc' = "enc_gen"
    /\ UNCHANGED <<charSigned, size, minlen, keystream1, keystream2, L1, L2,
                   stop1, stop2, count, checksum, data, byte1, byte2, index,
                   store, filepos, mac, orig, mainvars>>

\* Line 225.
GenerateKeystreams ==
    /\ pc \in {"enc_gen", "gk"}
    /\ keystream1' = generate_keystreams(key1, key2)[1]
    /\ keystream2' = generate_keystreams(key1, key2)[2]
    /\ pc' = IF pc = "gk" THEN "gk_done" ELSE "enc_genned"
    /\ UNCHANGED <<charSigned, size, minlen, key1, key2, L1, L2, stop1, stop2,
                   count, checksum, data, byte1, byte2, index, store, filepos,
                   mac, orig, mainvars>>

\* Lines 228-234: del key1, key2.
DelKeys ==
    /\ pc = "enc_genned"
    /\ key1' = <<>>
    /\ key2' = <<>>
    /\ pc' = "enc_open"
    /\ UNCHANGED <<charSigned, size, minlen, keystream1, keystream2, L1, L2,
                   stop1, stop2, count, checksum, data, byte1, byte2, index,
                   store, filepos, mac, orig, mainvars>>

\* Lines 238-249: open the file, set the lengths, read the first chunk.
OpenFile ==
    /\ pc \in {"enc_open", "gk_done"}
    /\ L1' = Len(keystream1[1])
    /\ L2' = Len(keystream2[1])
    /\ stop1' = CeilHalf(Len(keystream1[1]))
    /\ stop2' = CeilHalf(Len(keystream2[1]))
    /\ count' = 0
    /\ checksum' = 0
    /\ data' = FileRead(store, 0, ChunkSize)
    /\ filepos' = Len(FileRead(store, 0, ChunkSize))
    /\ pc' = IF pc = "gk_done" THEN "gk_open" ELSE "enc_loop"
    /\ UNCHANGED <<charSigned, size, minlen, key1, key2, keystream1, keystream2,
                   byte1, byte2, index, store, mac, orig, mainvars>>

\* The exception leaves nemesis_encrypt through "except: raise"; the with
\* block closes the file on the way.
EncRaise ==
    /\ pc' = "enc_crashed"
    /\ UNCHANGED <<charSigned, size, minlen, key1, key2, keystream1, keystream2,
                   L1, L2, stop1, stop2, count, checksum, data, byte1, byte2,
                   index, store, filepos, mac, orig, mainvars>>

\* Lines 265-287 for the mixing bytes b1, b2.
TransformByte(b1, b2) ==
    LET idx     == CRem(count, ChunkSize)
        newdata == [data EXCEPT ![idx + 1] = StoredByte(charSigned, At(data, idx), b1, b2)]
        cnt     == count + 1
        written == FileWrite(store, cnt - ChunkSize, newdata)
        reread  == FileRead(written, cnt - ChunkSize + Len(newdata), ChunkSize)
    IN  /\ byte1' = b1
        /\ byte2' = b2
        /\ index' = idx
        /\ checksum' = checksum + ChecksumAddend(charSigned, At(newdata, idx))
        /\ count' = cnt
        /\ IF ChunkDue(cnt, size)
           THEN /\ store' = written
                /\ data' = reread
                /\ filepos' = cnt - ChunkSize + Len(newdata) + Len(reread)
           ELSE /\ store' = store
                /\ data' = newdata
                /\ filepos' = filepos
        /\ pc' = "enc_loop"
        /\ UNCHANGED <<charSigned, size, minlen, key1, key2, keystream1,
                       keystream2, L1, L2, stop1, stop2, mac, orig, mainvars>>

\* What a mixing loop leaves in byte1 / byte2: its sum, or, after a read
\* past the end of the list of rows, whatever that read produced.
MixValues(m) == IF m.st = "ok" THEN {m.v} ELSE Byte

\* One pass of the while loop, lines 251-287.  An IndexError ends the
\* function; after an undefined read the process may die or go on.
EncryptByte ==
    /\ pc = "enc_loop"
    /\ count < size
    /\ LET m1 == MixLoop(keystream1, L1, stop1, count, 0, 0)
           m2 == MixLoop(keystream2, L2, stop2, count, 0, 0)
       IN  \/ /\ (m1.st # "ok" \/ m2.st # "ok")
              /\ EncRaise
           \/ /\ m1.st # "IndexError"
              /\ m2.st # "IndexError"
              /\ \E b1 \in MixValues(m1), b2 \in MixValues(m2) : TransformByte(b1, b2)

\* Lines 290-297: the loop has ended; the MAC is printed.
FinishEncrypt ==
    /\ pc = "enc_loop"
    /\ count >= size
    /\ mac' = <<CRem(checksum, 233), CRem(checksum, 239),
                CRem(checksum, 241), CRem(checksum, 251)>>
    /\ pc' = "enc_done"
    /\ UNCHANGED <<charSigned, size, minlen, key1, key2, keystream1, keystream2,
                   L1, L2, stop1, stop2, count, checksum, data, byte1, byte2,
                   index, store, filepos, orig, mainvars>>

\* Lines 308-309, called on the same file after nemesis_encrypt.
NemesisDecrypt ==
    /\ pc = "enc_done"
    /\ mainpc = "none"
    /\ pc' = "dec_done"
    /\ UNCHANGED <<charSigned, encvars, mainvars>>

-----------------------------------------------------------------------------
(* main, lines 317-381 *)

\* A command line is a sequence of symbols: " ", "-", or a word holding
\* neither.  x.split(' -') cuts it at every " " followed by "-".
RECURSIVE SplitDash(_, _)
SplitDash(s, piece) ==
    IF s = <<>> THEN <<piece>>
    ELSE IF Len(s) >= 2 /\ s[1] = " " /\ s[2] = "-"
         THEN <<piece>> \o SplitDash(SubSeq(s, 3, Len(s)), <<>>)
         ELSE SplitDash(Tail(s), Append(piece, Head(s)))

\* The value of a local of main that was never assigned.
Unbound == <<"?">>

PyIn(e, list) == \E n \in 1..Len(list) : list[n] = e

\* Line 336: ('-quit' in x) or ('quit' in x).
HasQuit(parts) == PyIn(<<"-", "quit">>, parts) \/ PyIn(<<"quit">>, parts)

\* The files main can be pointed at: "f" exists and can be opened (its
\* content is store), "h" exists and cannot be opened, nothing else exists.
FileExists(name) == name \in {<<"f">>, <<"h">>}
FileReadable(name) == name = <<"f">>

\* The command lines typed at the prompt.
Commands ==
    { <<"f", " ", "-", "encrypt">>,
      <<"f", " ", "-", "decrypt">>,
      <<"g", " ", "-", "encrypt">>,
      <<"h", " ", "-", "encrypt">>,
      <<"f", " ", "-", "decrypt", " ", "-", "encrypt">>,
      <<"f">>,
      <<"-", "quit">>,
      <<"quit">>,
      <<"f", " ", "-", "quit">> }

\* Where main goes once the finally block is through: a pending SystemExit
\* ends the program, otherwise the loop prompts again.
AfterFinally(pend) == IF pend = "SystemExit" THEN "exited" ELSE "prompt"

\* One pass of the while loop, lines 327-381, up to the call of the mode.
\*   try (332-338): sys.exit(0) raises SystemExit, the unpacking of x raises
\*     ValueError unless x has two parts;
\*   except ValueError (341-353); except: raise (357-361);
\*   finally (363-381): runs whatever is pending; open(filename) fails with
\*     NameError when filename was never assigned, FileNotFoundError or
\*     PermissionError, each setting mode to ''; the inner finally calls
\*     usage_modes.get(mode, lambda x: None)(filename), which raises
\*     UnboundLocalError when filename was never assigned.
MainCommand(raw) ==
    LET parts   == SplitDash(raw, <<>>)
        quit    == HasQuit(parts)
        pend    == IF quit THEN "SystemExit" ELSE "none"
        fn      == IF quit THEN filename
                   ELSE IF Len(parts) = 2 THEN parts[1] ELSE <<>>
        md      == IF quit THEN mode
                   ELSE IF Len(parts) = 2 THEN parts[2] ELSE <<>>
        opened  == fn # Unbound /\ FileExists(fn) /\ FileReadable(fn)
        md2     == IF opened THEN md ELSE <<>>
    IN  /\ mainpc = "prompt"
        /\ ncmds < MaxCmds
        /\ ncmds' = ncmds + 1
        /\ x' = parts
        /\ filename' = fn
        /\ mode' = md2
        /\ IF fn = Unbound
           THEN /\ pending' = "UnboundLocalError"
                /\ lastCall' = "none"
                /\ mainpc' = "crashed"
                /\ pc' = pc
           ELSE IF md2 = <<"encrypt">>
           THEN /\ pending' = pend
                /\ lastCall' = "nemesis_encrypt"
                /\ mainpc' = "in_encrypt"
                /\ pc' = "enc_entry"
           ELSE IF md2 = <<"decrypt">>
           THEN /\ pending' = pend
                /\ lastCall' = "nemesis_decrypt"
                /\ mainpc' = AfterFinally(pend)
                /\ pc' = pc
           ELSE /\ pending' = pend
                /\ lastCall' = "lambda"
                /\ mainpc' = AfterFinally(pend)
                /\ pc' = pc
        /\ UNCHANGED <<charSigned, encvars>>

ReadCommand == \E raw \in Commands : MainCommand(raw)

\* nemesis_encrypt returns to the finally block of line 381.
ReturnFromEncrypt ==
    /\ mainpc = "in_encrypt"
    /\ pc = "enc_done"
    /\ pc' = "idle"
    /\ mainpc' = AfterFinally(pending)
    /\ UNCHANGED <<charSigned, encvars, x, filename, mode, pending, lastCall, ncmds>>

\* nemesis_encrypt raised: the exception leaves main.
RaiseFromEncrypt ==
    /\ mainpc = "in_encrypt"
    /\ pc = "enc_crashed"
    /\ pc' = "idle"
    /\ mainpc' = "crashed"
    /\ UNCHANGED <<charSigned, encvars, x, filename, mode, pending, lastCall, ncmds>>

-----------------------------------------------------------------------------
(* Functions called on their own *)

\* The RK+ step, lines 265-271, on every byte of the buffer with the given
\* mixing bytes.
CallRKPlus ==
    /\ pc = "rk"
    /\ data' = [n \in 1..Len(data) |-> StoredByte(charSigned, data[n], byte1, byte2)]
    /\ pc' = "rk_done"
    /\ UNCHANGED <<charSigned, size, minlen, key1, key2, keystream1, keystream2,
                   L1, L2, stop1, stop2, count, checksum, byte1, byte2, index,
                   store, filepos, mac, orig, mainvars>>

\* necessary_length(size), lines 114-122.
CallNecessaryLength ==
    /\ pc = "nl"
    /\ minlen' = necessary_length(size)
    /\ pc' = "nl_done"
    /\ UNCHANGED <<charSigned, size, key1, key2, keystream1, keystream2, L1, L2,
                   stop1, stop2, count, checksum, data, byte1, byte2, index,
                   store, filepos, mac, orig, mainvars>>

-----------------------------------------------------------------------------
(* Initial states and specifications *)

IdleMain ==
    /\ x = <<>>
    /\ filename = Unbound
    /\ mode = Unbound
    /\ pending = "none"
    /\ lastCall = "none"
    /\ mainpc = "none"
    /\ ncmds = 0

IdleEnc ==
    /\ size = 0 /\ minlen = 0
    /\ key1 = <<>> /\ key2 = <<>>
    /\ keystream1 = <<>> /\ keystream2 = <<>>
    /\ L1 = 0 /\ L2 = 0 /\ stop1 = 0 /\ stop2 = 0
    /\ count = 0 /\ checksum = 0
    /\ data = <<>> /\ byte1 = 0 /\ byte2 = 0 /\ index = 0
    /\ filepos = 0
    /\ mac = <<0, 0, 0, 0>>

\* nemesis_encrypt is entered on a file, then nemesis_decrypt on the same file.
Init ==
    /\ charSigned \in BOOLEAN
    /\ pc = "enc_entry"
    /\ store \in Stores
    /\ orig = store
    /\ IdleEnc
    /\ IdleMain

Next ==
    \/ EncEntry
    \/ EnterKeys
    \/ GenerateKeystreams
    \/ DelKeys
    \/ OpenFile
    \/ EncryptByte
    \/ FinishEncrypt
    \/ NemesisDecrypt

Spec == Init /\ [][Next]_vars

\* The RK+ step for every byte value and every pair of mixing bytes: the
\* buffer holds each byte value once, byte1 and byte2 are any two bytes.
InitRK ==
    /\ charSigned \in BOOLEAN
    /\ pc = "rk"
    /\ size = 256 /\ minlen = 0
    /\ key1 = <<>> /\ key2 = <<>>
    /\ keystream1 = <<>> /\ keystream2 = <<>>
    /\ L1 = 0 /\ L2 = 0 /\ stop1 = 0 /\ stop2 = 0
    /\ count = 0 /\ checksum = 0
    /\ data = [n \in 1..256 |-> n - 1]
    /\ byte1 \in Byte
    /\ byte2 \in Byte
    /\ index = 0
    /\ store = data
    /\ orig = data
    /\ filepos = 256
    /\ mac = <<0, 0, 0, 0>>
    /\ IdleMain

NextRK == CallRKPlus

SpecRK == InitRK /\ [][NextRK]_vars

\* The RK+ step with byte2 = 0 and every byte1, so that RK takes every value
\* 0..127 and every entry of both tables is read.
InitTables ==
    /\ InitRK
    /\ byte2 = 0

SpecTables == InitTables /\ [][NextRK]_vars

\* necessary_length for every size up to MaxAdvisorSize.
InitNL ==
    /\ charSigned \in BOOLEAN
    /\ pc = "nl"
    /\ size \in 1..MaxAdvisorSize
    /\ minlen = 0
    /\ key1 = <<>> /\ key2 = <<>>
    /\ keystream1 = <<>> /\ keystream2 = <<>>
    /\ L1 = 0 /\ L2 = 0 /\ stop1 = 0 /\ stop2 = 0
    /\ count = 0 /\ checksum = 0
    /\ data = <<>> /\ byte1 = 0 /\ byte2 = 0 /\ index = 0
    /\ store = <<>> /\ orig = <<>>
    /\ filepos = 0
    /\ mac = <<0, 0, 0, 0>>
    /\ IdleMain

NextNL == CallNecessaryLength

SpecNL == InitNL /\ [][NextNL]_vars

\* generate_keystreams for every pair of keys up to MaxKeyLen characters,
\* followed by the length computations of nemesis_encrypt.
InitKS ==
    /\ charSigned \in BOOLEAN
    /\ pc = "gk"
    /\ key1 \in SeqsUpTo(KeyChars, MaxKeyLen)
    /\ key2 \in SeqsUpTo(KeyChars, MaxKeyLen)
    /\ size = 0 /\ minlen = 0
    /\ keystream1 = <<>> /\ keystream2 = <<>>
    /\ L1 = 0 /\ L2 = 0 /\ stop1 = 0 /\ stop2 = 0
    /\ count = 0 /\ checksum = 0
    /\ data = <<>> /\ byte1 = 0 /\ byte2 = 0 /\ index = 0
    /\ store = <<>> /\ orig = <<>>
    /\ filepos = 0
    /\ mac = <<0, 0, 0, 0>>
    /\ IdleMain

NextKS ==
    \/ GenerateKeystreams
    \/ OpenFile

SpecKS == InitKS /\ [][NextKS]_vars

\* main, with the file "f" holding one of MainStores.
InitMain ==
    /\ charSigned \in BOOLEAN
    /\ pc = "idle"
    /\ store \in MainStores
    /\ orig = store
    /\ IdleEnc
    /\ x = <<>>
    /\ filename = Unbound
    /\ mode = Unbound
    /\ pending = "none"
    /\ lastCall = "none"
    /\ mainpc = "prompt"
    /\ ncmds = 0

NextMain ==
    \/ ReadCommand
    \/ EncEntry
    \/ EnterKeys
    \/ GenerateKeystreams
    \/ DelKeys
    \/ OpenFile
    \/ EncryptByte
    \/ FinishEncrypt
    \/ ReturnFromEncrypt
    \/ RaiseFromEncrypt

SpecMain == InitMain /\ [][NextMain]_vars

-----------------------------------------------------------------------------
(* Properties *)

\* The ciphertext bytes nemesis_encrypt has produced when its loop ends: the
\* chunks written to the file, then the bytes still in the buffer.
ProducedCipher ==
    IF size % ChunkSize = 0 THEN store
    ELSE SubSeq(store, 1, size - (size % ChunkSize)) \o data

\* C1: when nemesis_encrypt finishes, every byte of the store at every
\* offset 0 <= t < size holds the transformed byte of that offset, the final
\* partial chunk included.
C1_EveryByteWrittenBack ==
    pc = "enc_done" =>
        \A t \in 0..(size - 1) : At(store, t) = At(ProducedCipher, t)

\* The inverse transform of the RK+ step as the specification states it.
RKDecrypt(c, b1, b2) ==
    LET rk   == ((b1 + b2) % 256) \div 2
        temp == (c * At(_INVERSE, 127 - rk)) % 256
    IN  (((temp - b1 + b2) % 256) * At(_INVERSE, rk)) % 256

\* C2: the inverse transform applied to the byte the RK+ step stores for p,
\* with the same mixing bytes, returns p.
C2_RKRoundTrip ==
    pc = "rk_done" =>
        \A n \in 1..Len(data) : RKDecrypt(data[n], byte1, byte2) = orig[n]

C2_Witness ==
    /\ pc = "rk_done"
    /\ charSigned
    /\ byte1 < byte2
    /\ \E n \in 1..Len(data) :
          /\ orig[n] >= 128
          /\ data[n] # orig[n]
          /\ RKDecrypt(data[n], byte1, byte2) = orig[n]

\* C3: nemesis_encrypt followed by nemesis_decrypt on the same store leaves
\* the store equal to what it held before.
C3_EncryptDecryptRoundTrip ==
    pc = "dec_done" => store = orig

\* C4: when the encryption pass ends the checksum is the sum of the
\* ciphertext bytes produced, each counted as a value in 0..255, and the MAC
\* numbers are that checksum modulo 233, 239, 241 and 251, each within
\* 0..modulus-1.
C4_ChecksumAndMAC ==
    pc = "enc_done" =>
        /\ checksum = SumSeq(ProducedCipher)
        /\ mac = <<checksum % 233, checksum % 239, checksum % 241, checksum % 251>>
        /\ mac[1] \in 0..232
        /\ mac[2] \in 0..238
        /\ mac[3] \in 0..240
        /\ mac[4] \in 0..250

\* C5: for every x in 0..127, _ODD[x] = 2x+1 and _ODD[x] * _INVERSE[x] is 1
\* modulo 256.
C5_OddInverseTables ==
    pc \in {"rk", "rk_done"} =>
        /\ Len(_ODD) = 128
        /\ Len(_INVERSE) = 128
        /\ \A t \in 0..127 :
              /\ At(_ODD, t) = 2 * t + 1
              /\ (At(_ODD, t) * At(_INVERSE, t)) % 256 = 1

C5_Witness ==
    /\ pc = "rk_done"
    /\ RKIndex(byte1, byte2) = 127
    /\ At(orig, 1) = 1
    /\ At(data, 1) = (At(_ODD, 127) + byte1) % 256
    /\ (At(_ODD, 127) * At(_INVERSE, 127)) % 256 = 1

\* The shape the specification gives a keystream built from a key.
ShapeOK(ks, key) ==
    LET L == Len(ks[1])
    IN  /\ ks[1] = as_bytes(key)
        /\ Len(ks) = 1 + CeilHalf(L)
        /\ \A i \in 1..(Len(ks) - 1) :
              /\ Len(At(ks, i)) = L - i
              /\ \A n \in 1..Len(At(ks, i)) : At(ks, i)[n] \in Byte

\* What the loop of nemesis_encrypt assumes when it reads row i at
\* count % (L - i) for i < stop.
EncryptAssumes(ks, L, stop) ==
    /\ L = Len(ks[1])
    /\ \A i \in 0..(stop - 1) : i < Len(ks) /\ Len(At(ks, i)) = L - i

\* C6: each keystream generate_keystreams returns has row 0 equal to the
\* key's bytes and, with L the length of row 0, ceil(L/2) further rows, row i
\* of length L - i, all entries bytes; these are the L and the row lengths
\* nemesis_encrypt assumes when it indexes the rows.
C6_KeystreamShape ==
    /\ pc \in {"gk_done", "gk_open"} =>
          ShapeOK(keystream1, key1) /\ ShapeOK(keystream2, key2)
    /\ pc = "gk_open" =>
          EncryptAssumes(keystream1, L1, stop1) /\ EncryptAssumes(keystream2, L2, stop2)

RECURSIVE Pow(_, _)
Pow(b, e) == IF e = 0 THEN 1 ELSE b * Pow(b, e - 1)

\* 2.65^(k-1) > sz, in exact arithmetic: 2.65 = 53/20.
GrowthExceeds(k, sz) == Pow(53, k - 1) > sz * Pow(20, k - 1)

\* C7: necessary_length(size) is the least k >= 2 such that 2.65^(k-1)
\* exceeds size; necessary_length(7) = 3 and necessary_length(100) = 6.
C7_NecessaryLength ==
    pc = "nl_done" =>
        /\ minlen >= 2
        /\ GrowthExceeds(minlen, size)
        /\ \A k \in 2..(minlen - 1) : ~GrowthExceeds(k, size)
        /\ (size = 7 => minlen = 3)
        /\ (size = 100 => minlen = 6)

C7_Witness ==
    /\ pc = "nl_done"
    /\ size = 100
    /\ minlen = 6
    /\ ~GrowthExceeds(5, size)

\* C8: when the command holds the quit parameter, no encrypt or decrypt mode
\* is executed in that pass of the loop.
C8_QuitRunsNoMode ==
    (PyIn(<<"-", "quit">>, x) \/ PyIn(<<"quit">>, x)) =>
        /\ lastCall \notin {"nemesis_encrypt", "nemesis_decrypt"}
        /\ mainpc # "in_encrypt"

\* The recurrence of the specification in exact integer arithmetic: the
\* fold over k, and the entry j of row i given the row above and the index
\* p of its fourth factor.
RECURSIVE ExactFold(_, _, _, _, _, _, _)
ExactFold(acc, k, j, K, Ko, L, Lo) ==
    IF k = Lo THEN acc
    ELSE ExactFold(acc + At(Ko, k) * At(Ko, (k + j) % Lo) * At(K, (acc + k) % L),
                   k + 1, j, K, Ko, L, Lo)

ExactEntry(prev, p, i, j, K, Ko, L, Lo) ==
    ExactFold(At(prev, j) * At(prev, L - i) + At(prev, j + 1) * At(prev, p),
              0, j, K, Ko, L, Lo) % 256

\* Every entry of every generated row of ks equals the recurrence, p being
\* L - 1 for j = 0 when literal, the last index of the row above otherwise.
RowsFollowRecurrence(literal, ks, otherks, L, Lo) ==
    \A i \in 1..CeilHalf(L) :
        /\ i < Len(ks)
        /\ \A j \in 0..(L - i - 1) :
              LET prev == At(ks, i - 1)
                  p    == IF j # 0 THEN 0
                          ELSE IF literal THEN L - 1 ELSE Len(prev) - 1
              IN  /\ j < Len(At(ks, i))
                  /\ p < Len(prev)
                  /\ At(At(ks, i), j)
                        = ExactEntry(prev, p, i, j, ks[1], otherks[1], L, Lo)

IsAscii(key) == \A n \in 1..Len(key) : key[n] < 128

C10_StoredByteFormula ==
    pc = "rk_done" =>
        LET rk == ((byte1 + byte2) % 256) \div 2
        IN  \A n \in 1..Len(data) :
                data[n] = ((((2 * rk + 1) * orig[n] + byte1 - byte2) % 256)
                              * (2 * (127 - rk) + 1)) % 256

C10_Witness ==
    /\ pc = "rk_done"
    /\ charSigned
    /\ byte1 < byte2
    /\ \E n \in 1..Len(data) :
          /\ orig[n] >= 128
          /\ RKPlus(CharValue(charSigned, orig[n]), byte1, byte2) < 0
          /\ data[n] = 256 + RKPlus(CharValue(charSigned, orig[n]), byte1, byte2)

\* The sum the specification gives for a mixing byte at position t, before
\* the reduction modulo 256: rows i..stop-1 of ks, row i read at t mod (L - i).
RECURSIVE MixSum(_, _, _, _, _)
MixSum(ks, L, stop, t, i) ==
    IF i >= stop THEN 0
    ELSE At(At(ks, i), t % (L - i)) + MixSum(ks, L, stop, t, i + 1)

\* Rows 0..stop-1 of ks exist and hold an entry at t mod (L - i), and the
\* last generated row is row stop, which the sum leaves out.
RowsConsumed(ks, L, stop, t) ==
    /\ Len(ks) = stop + 1
    /\ \A i \in 0..(stop - 1) : (t % (L - i)) < Len(At(ks, i))

\* The byte at absolute offset u of the stream as the loop holds it: in the
\* buffer for the chunk being processed, in the store for the chunks already
\* written back and for those not yet read.
StreamByte(u) ==
    LET chunkStart == count - (count % ChunkSize)
    IN  IF u >= chunkStart /\ u < chunkStart + Len(data)
        THEN At(data, u - chunkStart)
        ELSE At(store, u)

\* C11: throughout the streaming loop the position counter count runs from 0
\* to size in steps of one per transformed byte and is not reset at a chunk
\* boundary: the bytes at offsets below count are transformed, the others
\* are not; the byte transformed at counter value t is the store byte at
\* absolute offset t, mixed with byte1 = (sum over i < stop1 of
\* keystream1[i][t mod (L1 - i)]) mod 256 and byte2 likewise, row stop being
\* the last generated row and not consumed; the index into the buffer is the
\* only chunk-relative quantity.
C11_PositionCounter ==
    pc = "enc_loop" =>
        /\ count \in 0..size
        /\ \A t \in 0..(count - 1) :
              /\ RowsConsumed(keystream1, L1, stop1, t)
              /\ RowsConsumed(keystream2, L2, stop2, t)
              /\ StreamByte(t) =
                    StoredByte(charSigned, At(orig, t),
                               MixSum(keystream1, L1, stop1, t, 0) % 256,
                               MixSum(keystream2, L2, stop2, t, 0) % 256)
        /\ \A t \in count..(size - 1) : StreamByte(t) = At(orig, t)
        /\ count > 0 =>
              /\ byte1 = MixSum(keystream1, L1, stop1, count - 1, 0) % 256
              /\ byte2 = MixSum(keystream2, L2, stop2, count - 1, 0) % 256
              /\ index = (count - 1) % ChunkSize

\* The same for keys of ASCII characters only.
C11_PositionCounterAscii ==
    (/\ pc = "enc_loop"
     /\ \A n \in 1..Len(keystream1[1]) : keystream1[1][n] < 128
     /\ \A n \in 1..Len(keystream2[1]) : keystream2[1][n] < 128)
    => C11_PositionCounter

====
